---- MODULE Spec2Model ----
(***************************************************************************)
(* Model of the redline reviewer: the diff core (utils/diffUtils:          *)
(* calculateDiffs, getCleanText, getRedlineHtml), the Gemini service       *)
(* wrappers (services/geminiService.ts) and the handlers of App.           *)
(*                                                                         *)
(* A text is a sequence of one-character strings, so that tokenisation,    *)
(* trimming and escaping are computed character by character.              *)
(*                                                                         *)
(* calculateDiffs delegates the alignment to Diff.diffWords of the `diff`  *)
(* package (import at part_000:493, call at part_000:501).  The operators  *)
(* of the section "Diff.diffWords" follow that package's word diff (the    *)
(* 6.x-8.x line: whitespace belongs to the neighbouring word tokens,       *)
(* tokens are compared trimmed, and whitespace shared by neighbouring      *)
(* change objects is de-duplicated afterwards).                            *)
(***************************************************************************)
EXTENDS Integers, Sequences, FiniteSets, TLC

\* ------------------------------------------------------------ text helpers

Min(a, b) == IF a < b THEN a ELSE b

Max(a, b) == IF a > b THEN a ELSE b

\* JavaScript's \s, restricted to the characters the model uses
IsSpaceChar(c) == c \in {" ", "\n"}

\* the word characters of the tokenizer's regular expression ([a-zA-Z0-9_...])
IsWordChar(c) == c \in {"a", "b", "c", "g", "l", "m", "p", "r", "t"}

CharClass(c) == IF IsSpaceChar(c) THEN "space" ELSE IF IsWordChar(c) THEN "word" ELSE "other"

Slice(s, from, to) == IF from > to THEN <<>> ELSE SubSeq(s, from, to)

RECURSIVE Flatten(_)
\* Array.prototype.join('') over an array of strings
Flatten(ss) == IF ss = <<>> THEN <<>> ELSE Head(ss) \o Flatten(Tail(ss))

RECURSIVE WsPrefixLen(_, _)
WsPrefixLen(s, i) ==
  IF i <= Len(s) /\ IsSpaceChar(s[i]) THEN WsPrefixLen(s, i + 1) ELSE i - 1

RECURSIVE WsSuffixLen(_, _)
WsSuffixLen(s, n) ==
  IF n < Len(s) /\ IsSpaceChar(s[Len(s) - n]) THEN WsSuffixLen(s, n + 1) ELSE n

\* value.match(/^\s*/)[0]
WsPrefix(s) == Slice(s, 1, WsPrefixLen(s, 1))

\* value.match(/\s*$/)[0]
WsSuffix(s) == Slice(s, Len(s) - WsSuffixLen(s, 0) + 1, Len(s))

\* String.prototype.trim
Trim(s) ==
  LET p == WsPrefixLen(s, 1)
  IN  IF p = Len(s) THEN <<>> ELSE Slice(s, p + 1, Len(s) - WsSuffixLen(s, 0))

\* token.replace(/^\s+/, '')
StripLeadingWs(s) == Slice(s, WsPrefixLen(s, 1) + 1, Len(s))

IsPrefix(p, s) == Len(p) <= Len(s) /\ Slice(s, 1, Len(p)) = p

IsSuffix(p, s) == Len(p) <= Len(s) /\ Slice(s, Len(s) - Len(p) + 1, Len(s)) = p

\* the value an operation of the library leaves behind when it throws
Thrown == <<"#error">>

HasThrown(s) == \E i \in 1..Len(s) : s[i] = "#error"

\* ------------------------------------------------------------ Diff.diffWords
\* util/string of the diff package

RECURSIVE CommonPrefixLen(_, _, _)
CommonPrefixLen(a, b, i) ==
  IF i <= Len(a) /\ i <= Len(b) /\ a[i] = b[i] THEN CommonPrefixLen(a, b, i + 1) ELSE i - 1

longestCommonPrefix(a, b) == Slice(a, 1, CommonPrefixLen(a, b, 1))

RECURSIVE CommonSuffixLen(_, _, _)
CommonSuffixLen(a, b, n) ==
  IF n < Len(a) /\ n < Len(b) /\ a[Len(a) - n] = b[Len(b) - n]
  THEN CommonSuffixLen(a, b, n + 1) ELSE n

\* returns '' unless both strings end with the same character
longestCommonSuffix(a, b) == Slice(a, Len(a) - CommonSuffixLen(a, b, 0) + 1, Len(a))

\* throws when the string does not start with oldPrefix
replacePrefix(string, oldPrefix, newPrefix) ==
  IF HasThrown(string) \/ ~IsPrefix(oldPrefix, string) THEN Thrown
  ELSE newPrefix \o Slice(string, Len(oldPrefix) + 1, Len(string))

\* an empty oldSuffix appends; otherwise throws when the string does not end with it
replaceSuffix(string, oldSuffix, newSuffix) ==
  IF HasThrown(string) THEN Thrown
  ELSE IF oldSuffix = <<>> THEN string \o newSuffix
  ELSE IF ~IsSuffix(oldSuffix, string) THEN Thrown
  ELSE Slice(string, 1, Len(string) - Len(oldSuffix)) \o newSuffix

removePrefix(string, oldPrefix) == replacePrefix(string, oldPrefix, <<>>)

removeSuffix(string, oldSuffix) == replaceSuffix(string, oldSuffix, <<>>)

\* the longest suffix of string1 that is a prefix of string2
maximumOverlap(string1, string2) ==
  LET ns == {n \in 0..Min(Len(string1), Len(string2)) :
               Slice(string1, Len(string1) - n + 1, Len(string1)) = Slice(string2, 1, n)}
      best == CHOOSE n \in ns : \A m \in ns : m <= n
  IN  Slice(string2, 1, best)

\* value.match(tokenizeIncludingWhitespace): runs of word characters, runs of
\* whitespace, and every other character on its own
RECURSIVE PartsFrom(_, _, _)
PartsFrom(s, i, acc) ==
  IF i > Len(s) THEN acc
  ELSE LET c == s[i]
           n == Len(acc)
           extend == /\ n > 0
                     /\ CharClass(c) # "other"
                     /\ CharClass(acc[n][1]) = CharClass(c)
       IN  IF extend THEN PartsFrom(s, i + 1, [acc EXCEPT ![n] = Append(@, c)])
           ELSE PartsFrom(s, i + 1, Append(acc, <<c>>))

IsWsPart(part) == \E i \in 1..Len(part) : IsSpaceChar(part[i])

\* wordDiff.tokenize: whitespace is attached to the word before it and to the
\* word after it; prev = <<>> stands for prevPart == null
RECURSIVE TokensFrom(_, _, _, _)
TokensFrom(parts, i, tokens, prev) ==
  IF i > Len(parts) THEN tokens
  ELSE LET part == parts[i]
           n == Len(tokens)
           next == IF IsWsPart(part)
                   THEN IF prev = <<>> THEN Append(tokens, part)
                        ELSE [tokens EXCEPT ![n] = @ \o part]
                   ELSE IF IsWsPart(prev)
                        THEN IF tokens[n] = prev
                             THEN [tokens EXCEPT ![n] = @ \o part]
                             ELSE Append(tokens, prev \o part)
                        ELSE Append(tokens, part)
       IN  TokensFrom(parts, i + 1, next, part)

tokenize(value) == TokensFrom(PartsFrom(value, 1, <<>>), 1, <<>>, <<>>)

\* Diff.removeEmpty
removeEmpty(array) == SelectSeq(array, LAMBDA t : t # <<>>)

\* wordDiff.equals: tokens are compared with their whitespace trimmed
equals(left, right) == Trim(left) = Trim(right)

\* wordDiff.join: the tokens were consecutive in one text, so each but the
\* first repeats the whitespace that ends the one before it
join(tokens) ==
  Flatten([i \in 1..Len(tokens) |-> IF i = 1 THEN tokens[i] ELSE StripLeadingWs(tokens[i])])

\* a path of the edit graph: the position reached in the old tokens and the
\* components (runs of one operation) that lead there; def = FALSE is undefined
NoPath == [def |-> FALSE, oldPos |-> -1, comps |-> <<>>]

\* Diff.addToPath: one more token on the last component, or a new component
addToPath(path, added, removed, oldPosInc) ==
  LET cs == path.comps
      n == Len(cs)
  IN  IF n > 0 /\ cs[n].added = added /\ cs[n].removed = removed
      THEN [def |-> TRUE, oldPos |-> path.oldPos + oldPosInc,
            comps |-> [cs EXCEPT ![n].count = @ + 1]]
      ELSE [def |-> TRUE, oldPos |-> path.oldPos + oldPosInc,
            comps |-> Append(cs, [count |-> 1, added |-> added, removed |-> removed])]

RECURSIVE CommonCount(_, _, _, _)
\* the while loop of Diff.extractCommon; positions are 0-based as in the source
CommonCount(newString, oldString, newPos, oldPos) ==
  IF /\ newPos + 1 < Len(newString)
     /\ oldPos + 1 < Len(oldString)
     /\ equals(oldString[oldPos + 2], newString[newPos + 2])
  THEN 1 + CommonCount(newString, oldString, newPos + 1, oldPos + 1)
  ELSE 0

\* Diff.extractCommon: follow the diagonal while the tokens are equal
extractCommon(basePath, newString, oldString, diagonalPath) ==
  LET commonCount == CommonCount(newString, oldString,
                                 basePath.oldPos - diagonalPath, basePath.oldPos)
  IN  [def |-> TRUE,
       oldPos |-> basePath.oldPos + commonCount,
       comps |-> IF commonCount > 0
                 THEN Append(basePath.comps,
                             [count |-> commonCount, added |-> FALSE, removed |-> FALSE])
                 ELSE basePath.comps]

RECURSIVE diagonalLoop(_, _, _, _, _, _, _)
\* the for loop of execEditLength, from diagonal d on, at edit length e
diagonalLoop(d, e, bestPath, minD, maxD, newString, oldString) ==
  IF d > Min(maxD, e)
  THEN [done |-> FALSE, comps |-> <<>>, bestPath |-> bestPath, minD |-> minD, maxD |-> maxD]
  ELSE
    LET newLen == Len(newString)
        oldLen == Len(oldString)
        removePath == bestPath[d - 1]
        addPath == bestPath[d + 1]
        cleared == IF removePath.def THEN [bestPath EXCEPT ![d - 1] = NoPath] ELSE bestPath
        canAdd == addPath.def /\ 0 <= addPath.oldPos - d /\ addPath.oldPos - d < newLen
        canRemove == removePath.def /\ removePath.oldPos + 1 < oldLen
    IN  IF ~canAdd /\ ~canRemove
        THEN diagonalLoop(d + 2, e, [cleared EXCEPT ![d] = NoPath], minD, maxD,
                          newString, oldString)
        ELSE
          LET stepped == IF ~canRemove \/ (canAdd /\ removePath.oldPos < addPath.oldPos)
                         THEN addToPath(addPath, TRUE, FALSE, 0)
                         ELSE addToPath(removePath, FALSE, TRUE, 1)
              basePath == extractCommon(stepped, newString, oldString, d)
              newPos == basePath.oldPos - d
          IN  IF basePath.oldPos + 1 >= oldLen /\ newPos + 1 >= newLen
              THEN [done |-> TRUE, comps |-> basePath.comps, bestPath |-> cleared,
                    minD |-> minD, maxD |-> maxD]
              ELSE diagonalLoop(d + 2, e, [cleared EXCEPT ![d] = basePath],
                                IF newPos + 1 >= newLen THEN Max(minD, d + 1) ELSE minD,
                                IF basePath.oldPos + 1 >= oldLen THEN Min(maxD, d - 1) ELSE maxD,
                                newString, oldString)

RECURSIVE editLoop(_, _, _, _, _, _)
\* while (editLength <= maxEditLength) execEditLength()
editLoop(e, bestPath, minD, maxD, newString, oldString) ==
  IF e > Len(newString) + Len(oldString) THEN <<>>
  ELSE LET r == diagonalLoop(Max(minD, -e), e, bestPath, minD, maxD, newString, oldString)
       IN  IF r.done THEN r.comps
           ELSE editLoop(e + 1, r.bestPath, r.minD, r.maxD, newString, oldString)

\* Diff.diff up to buildValues: the components of the chosen edit script
editScript(oldString, newString) ==
  LET bound == Len(newString) + Len(oldString) + 2
      seed == extractCommon([def |-> TRUE, oldPos |-> -1, comps |-> <<>>],
                            newString, oldString, 0)
  IN  IF seed.oldPos + 1 >= Len(oldString) /\ seed.oldPos + 1 >= Len(newString)
      THEN seed.comps
      ELSE editLoop(1, [d \in (0 - bound)..bound |-> IF d = 0 THEN seed ELSE NoPath],
                    0 - bound, bound, newString, oldString)

RECURSIVE CountBefore(_, _, _)
\* how many tokens of one text the components before the i-th consume
CountBefore(comps, i, old) ==
  IF i <= 1 THEN 0
  ELSE CountBefore(comps, i - 1, old)
       + (IF old THEN (IF comps[i - 1].added THEN 0 ELSE comps[i - 1].count)
          ELSE (IF comps[i - 1].removed THEN 0 ELSE comps[i - 1].count))

\* Diff.buildValues: kept and added components take their text from the new
\* tokens, removed components from the old tokens
buildValues(comps, newString, oldString) ==
  [i \in 1..Len(comps) |->
     LET c == comps[i]
         newPos == CountBefore(comps, i, FALSE)
         oldPos == CountBefore(comps, i, TRUE)
     IN  [count |-> c.count, added |-> c.added, removed |-> c.removed,
          value |-> IF c.removed
                    THEN join(Slice(oldString, oldPos + 1, oldPos + c.count))
                    ELSE join(Slice(newString, newPos + 1, newPos + c.count))]]

\* dedupeWhitespaceInChangeObjects: whitespace that ends one change object and
\* starts the next is kept once.  The arguments are positions in changes,
\* 0 for null.
dedupeWhitespaceInChangeObjects(changes, startKeep, deletion, insertion, endKeep) ==
  IF deletion # 0 /\ insertion # 0 THEN
    LET del0 == changes[deletion].value
        ins0 == changes[insertion].value
        oldWsPrefix == WsPrefix(del0)
        oldWsSuffix == WsSuffix(del0)
        newWsPrefix == WsPrefix(ins0)
        newWsSuffix == WsSuffix(ins0)
        commonWsPrefix == longestCommonPrefix(oldWsPrefix, newWsPrefix)
        commonWsSuffix == longestCommonSuffix(oldWsSuffix, newWsSuffix)
        c1 == IF startKeep # 0
              THEN [changes EXCEPT
                      ![startKeep].value = replaceSuffix(@, newWsPrefix, commonWsPrefix),
                      ![deletion].value = removePrefix(@, commonWsPrefix),
                      ![insertion].value = removePrefix(@, commonWsPrefix)]
              ELSE changes
    IN  IF endKeep # 0
        THEN [c1 EXCEPT
                ![endKeep].value = replacePrefix(@, newWsSuffix, commonWsSuffix),
                ![deletion].value = removeSuffix(@, commonWsSuffix),
                ![insertion].value = removeSuffix(@, commonWsSuffix)]
        ELSE c1
  ELSE IF insertion # 0 THEN
    \* only new whitespace is known here: each object keeps its trailing
    \* whitespace and loses the leading whitespace that repeats it
    LET c1 == IF startKeep # 0
              THEN [changes EXCEPT ![insertion].value = StripLeadingWs(@)]
              ELSE changes
    IN  IF endKeep # 0 THEN [c1 EXCEPT ![endKeep].value = StripLeadingWs(@)] ELSE c1
  ELSE IF startKeep # 0 /\ endKeep # 0 THEN
    LET newWsFull == WsPrefix(changes[endKeep].value)
        delWsStart == WsPrefix(changes[deletion].value)
        delWsEnd == WsSuffix(changes[deletion].value)
        newWsStart == longestCommonPrefix(newWsFull, delWsStart)
        del1 == removePrefix(changes[deletion].value, newWsStart)
        newWsEnd == longestCommonSuffix(removePrefix(newWsFull, newWsStart), delWsEnd)
    IN  [changes EXCEPT
           ![deletion].value = removeSuffix(del1, newWsEnd),
           ![endKeep].value = replacePrefix(@, newWsFull, newWsEnd),
           ![startKeep].value =
              replaceSuffix(@, newWsFull, Slice(newWsFull, 1, Len(newWsFull) - Len(newWsEnd)))]
  ELSE IF endKeep # 0 THEN
    \* a deletion at the start of the text
    LET endKeepWsPrefix == WsPrefix(changes[endKeep].value)
        deletionWsSuffix == WsSuffix(changes[deletion].value)
        overlap == maximumOverlap(deletionWsSuffix, endKeepWsPrefix)
    IN  [changes EXCEPT ![deletion].value = removeSuffix(@, overlap)]
  ELSE IF startKeep # 0 THEN
    \* a deletion at the end of the text
    LET startKeepWsSuffix == WsSuffix(changes[startKeep].value)
        deletionWsPrefix == WsPrefix(changes[deletion].value)
        overlap == maximumOverlap(startKeepWsSuffix, deletionWsPrefix)
    IN  [changes EXCEPT ![deletion].value = removePrefix(@, overlap)]
  ELSE changes

RECURSIVE postProcessFrom(_, _, _, _, _)
\* the forEach of wordDiff.postProcess and the call that follows it
postProcessFrom(changes, i, lastKeep, insertion, deletion) ==
  IF i > Len(changes)
  THEN IF insertion # 0 \/ deletion # 0
       THEN dedupeWhitespaceInChangeObjects(changes, lastKeep, deletion, insertion, 0)
       ELSE changes
  ELSE IF changes[i].added THEN postProcessFrom(changes, i + 1, lastKeep, i, deletion)
  ELSE IF changes[i].removed THEN postProcessFrom(changes, i + 1, lastKeep, insertion, i)
  ELSE postProcessFrom(
         IF insertion # 0 \/ deletion # 0
         THEN dedupeWhitespaceInChangeObjects(changes, lastKeep, deletion, insertion, i)
         ELSE changes,
         i + 1, i, 0, 0)

postProcess(changes) == postProcessFrom(changes, 1, 0, 0, 0)

\* Diff.diffWords(oldStr, newStr): tokenize, align, build the values, then
\* tidy the whitespace of the change objects
diffWords(oldStr, newStr) ==
  LET oldString == removeEmpty(tokenize(oldStr))
      newString == removeEmpty(tokenize(newStr))
  IN  postProcess(buildValues(editScript(oldString, newString), newString, oldString))

\* ------------------------------------------------------------ utils/diffUtils

\* calculateDiffs with the two type tests exchanged: an added part is labelled
\* removed and a removed part added
calculateDiffs_typesExchanged(original, revised) ==
  LET rawDiffs == diffWords(original, revised)
  IN  [index \in 1..Len(rawDiffs) |->
         [value |-> rawDiffs[index].value,
          type |-> IF rawDiffs[index].added THEN "removed"
                   ELSE IF rawDiffs[index].removed THEN "added"
                   ELSE "unchanged",
          originalIndex |-> index - 1]]

\* calculateDiffs without the test of part.added: an added part stays unchanged
calculateDiffs_addedUntested(original, revised) ==
  LET rawDiffs == diffWords(original, revised)
  IN  [index \in 1..Len(rawDiffs) |->
         [value |-> rawDiffs[index].value,
          type |-> IF rawDiffs[index].removed THEN "removed" ELSE "unchanged",
          originalIndex |-> index - 1]]

\* calculateDiffs taking part.value.trim() for the value
calculateDiffs_valueTrimmed(original, revised) ==
  LET rawDiffs == diffWords(original, revised)
  IN  [index \in 1..Len(rawDiffs) |->
         [value |-> Trim(rawDiffs[index].value),
          type |-> IF rawDiffs[index].removed THEN "removed"
                   ELSE IF rawDiffs[index].added THEN "added"
                   ELSE "unchanged",
          originalIndex |-> index - 1]]

\* calculateDiffs: one chunk per change object; the id is left to generateId
calculateDiffs(original, revised) ==
  LET rawDiffs == diffWords(original, revised)
  IN  [index \in 1..Len(rawDiffs) |->
         [value |-> rawDiffs[index].value,
          type |-> IF rawDiffs[index].removed THEN "removed"
                   ELSE IF rawDiffs[index].added THEN "added"
                   ELSE "unchanged",
          originalIndex |-> index - 1]]

\* Number.prototype.toString(36) of an outcome of Math.random(): the outcome is
\* a number of [0, 1), given by the digits of its fraction in base 36; zero
\* prints as "0", any other outcome as "0." and the digits
toString36(r) == IF r = <<>> THEN <<"0">> ELSE <<"0", ".">> \o r

\* String.prototype.substr(start, length)
substr(s, start, length) == Slice(s, start + 1, Min(Len(s), start + length))

\* generateId for the outcome r of its call of Math.random()
generateId(r) == substr(toString36(r), 2, 9)

\* the id fields of the n chunks calculateDiffs maps, the i-th call of
\* generateId receiving the i-th outcome of Math.random()
chunkIdsOf(n, randoms) == [index \in 1..n |-> generateId(randoms[index])]

\* getCleanText that does not omit the removed chunks
getCleanText_keepsRemoved(chunks) == Flatten([i \in 1..Len(chunks) |-> chunks[i].value])

\* getCleanText: the values of the unchanged and added chunks, in order
getCleanText(chunks) ==
  Flatten([i \in 1..Len(chunks) |->
             IF chunks[i].type = "unchanged" THEN chunks[i].value
             ELSE IF chunks[i].type = "added" THEN chunks[i].value
             ELSE <<>>])

\* String.prototype.replace(/c/g, by): every occurrence of the character c
ReplaceAll(s, c, by) == Flatten([i \in 1..Len(s) |-> IF s[i] = c THEN by ELSE <<s[i]>>])

\* the escaping with & rewritten after < and > instead of before them
escapeValue_ampersandLast(value) ==
  ReplaceAll(
    ReplaceAll(
      ReplaceAll(
        ReplaceAll(value, "<", <<"&", "l", "t", ";">>),
        ">", <<"&", "g", "t", ";">>),
      "&", <<"&", "a", "m", "p", ";">>),
    "\n", <<"<", "b", "r", ">">>)

\* the text of a chunk in getRedlineHtml: & first, then <, then >, then newlines
escapeValue(value) ==
  ReplaceAll(
    ReplaceAll(
      ReplaceAll(
        ReplaceAll(value, "&", <<"&", "a", "m", "p", ";">>),
        "<", <<"&", "l", "t", ";">>),
      ">", <<"&", "g", "t", ";">>),
    "\n", <<"<", "b", "r", ">">>)

\* <span>
SpanUnchanged == <<"<", "s", "p", "a", "n", ">">>

\* <span style="background-color: #dcfce7; color: #166534; text-decoration: underline;">
SpanAdded ==
  <<"<", "s", "p", "a", "n", " ", "s", "t", "y", "l", "e", "=", "\"", "b", "a", "c",
    "k", "g", "r", "o", "u", "n", "d", "-", "c", "o", "l", "o", "r", ":", " ", "#",
    "d", "c", "f", "c", "e", "7", ";", " ", "c", "o", "l", "o", "r", ":", " ", "#",
    "1", "6", "6", "5", "3", "4", ";", " ", "t", "e", "x", "t", "-", "d", "e", "c",
    "o", "r", "a", "t", "i", "o", "n", ":", " ", "u", "n", "d", "e", "r", "l", "i",
    "n", "e", ";", "\"", ">">>

\* <span style="background-color: #fee2e2; color: #991b1b; text-decoration: line-through;">
SpanRemoved ==
  <<"<", "s", "p", "a", "n", " ", "s", "t", "y", "l", "e", "=", "\"", "b", "a", "c",
    "k", "g", "r", "o", "u", "n", "d", "-", "c", "o", "l", "o", "r", ":", " ", "#",
    "f", "e", "e", "2", "e", "2", ";", " ", "c", "o", "l", "o", "r", ":", " ", "#",
    "9", "9", "1", "b", "1", "b", ";", " ", "t", "e", "x", "t", "-", "d", "e", "c",
    "o", "r", "a", "t", "i", "o", "n", ":", " ", "l", "i", "n", "e", "-", "t", "h",
    "r", "o", "u", "g", "h", ";", "\"", ">">>

\* </span>
SpanClose == <<"<", "/", "s", "p", "a", "n", ">">>

\* the markup getRedlineHtml emits for one chunk
redlineSpan(chunk) ==
  LET text == escapeValue(chunk.value)
  IN  IF chunk.type = "unchanged" THEN SpanUnchanged \o text \o SpanClose
      ELSE IF chunk.type = "added" THEN SpanAdded \o text \o SpanClose
      ELSE IF chunk.type = "removed" THEN SpanRemoved \o text \o SpanClose
      ELSE <<>>

\* getRedlineHtml that omits the removed chunks, as getCleanText does
getRedlineHtml_omitsRemoved(chunks) ==
  Flatten([i \in 1..Len(chunks) |->
             IF chunks[i].type = "removed" THEN <<>> ELSE redlineSpan(chunks[i])])

\* getRedlineHtml: the spans of the chunks, joined in chunk order
getRedlineHtml(chunks) == Flatten([i \in 1..Len(chunks) |-> redlineSpan(chunks[i])])

\* ------------------------------------------------------------ services/geminiService

\* a reply of ai.models.generateContent: ok = FALSE is a rejected call; the
\* text of a reply without text (response.text undefined) is empty
NoReply == [ok |-> FALSE, text |-> <<>>]

\* improveText whose catch returns the input instead of throwing again
improveText_catchReturnsText(text, reply) ==
  IF text = <<>> \/ Len(Trim(text)) = 0
  THEN [remote |-> FALSE, status |-> "returned", value |-> <<>>]
  ELSE IF reply.ok
  THEN [remote |-> TRUE, status |-> "returned",
        value |-> IF Trim(reply.text) # <<>> THEN Trim(reply.text) ELSE text]
  ELSE [remote |-> TRUE, status |-> "returned", value |-> text]

\* improveText without the guard of its first line
improveText_unguarded(text, reply) ==
  IF reply.ok
  THEN [remote |-> TRUE, status |-> "returned",
        value |-> IF Trim(reply.text) # <<>> THEN Trim(reply.text) ELSE text]
  ELSE [remote |-> TRUE, status |-> "threw", value |-> <<>>]

\* improveText: a blank text returns '' before any remote call; a reply
\* returns its trimmed text, or the input when that is empty; a rejected call
\* is logged and thrown again
improveText(text, reply) ==
  IF text = <<>> \/ Len(Trim(text)) = 0
  THEN [remote |-> FALSE, status |-> "returned", value |-> <<>>]
  ELSE IF reply.ok
  THEN [remote |-> TRUE, status |-> "returned",
        value |-> IF Trim(reply.text) # <<>> THEN Trim(reply.text) ELSE text]
  ELSE [remote |-> TRUE, status |-> "threw", value |-> <<>>]

\* "I have made several improvements to the text for better clarity and professional tone."
EmptyReplyExplanation ==
  <<"I", " ", "h", "a", "v", "e", " ", "m", "a", "d", "e", " ", "s", "e", "v", "e",
    "r", "a", "l", " ", "i", "m", "p", "r", "o", "v", "e", "m", "e", "n", "t", "s",
    " ", "t", "o", " ", "t", "h", "e", " ", "t", "e", "x", "t", " ", "f", "o", "r",
    " ", "b", "e", "t", "t", "e", "r", " ", "c", "l", "a", "r", "i", "t", "y", " ",
    "a", "n", "d", " ", "p", "r", "o", "f", "e", "s", "s", "i", "o", "n", "a", "l",
    " ", "t", "o", "n", "e", ".">>

\* "I have revised the text to improve clarity and flow."
FailureExplanation ==
  <<"I", " ", "h", "a", "v", "e", " ", "r", "e", "v", "i", "s", "e", "d", " ", "t",
    "h", "e", " ", "t", "e", "x", "t", " ", "t", "o", " ", "i", "m", "p", "r", "o",
    "v", "e", " ", "c", "l", "a", "r", "i", "t", "y", " ", "a", "n", "d", " ", "f",
    "l", "o", "w", ".">>

\* explainChanges whose catch throws again, as the catch of improveText does
explainChanges_catchThrows(orig, rev, reply) ==
  IF orig = <<>> \/ rev = <<>>
  THEN [remote |-> FALSE, status |-> "returned", value |-> <<>>]
  ELSE IF reply.ok
  THEN [remote |-> TRUE, status |-> "returned",
        value |-> IF Trim(reply.text) # <<>> THEN Trim(reply.text)
                  ELSE EmptyReplyExplanation]
  ELSE [remote |-> TRUE, status |-> "threw", value |-> <<>>]

\* explainChanges: '' when either text is empty; a reply returns its trimmed
\* text or a default; a rejected call is logged and answered with a fixed text
explainChanges(orig, rev, reply) ==
  IF orig = <<>> \/ rev = <<>>
  THEN [remote |-> FALSE, status |-> "returned", value |-> <<>>]
  ELSE IF reply.ok
  THEN [remote |-> TRUE, status |-> "returned",
        value |-> IF Trim(reply.text) # <<>> THEN Trim(reply.text)
                  ELSE EmptyReplyExplanation]
  ELSE [remote |-> TRUE, status |-> "returned", value |-> FailureExplanation]

\* ------------------------------------------------------------ state

VARIABLES
  originalText,      \* App: useState('')
  revisedText,       \* App: useState('')
  isRevisedDirty,    \* App: useState(false)
  isAiLoading,       \* App: useState(false)
  deferredOriginal,  \* App: useDeferredValue(originalText)
  deferredRevised,   \* App: useDeferredValue(revisedText)
  revisionCall,      \* handleGenerateRevision suspended at await improveText
  revisionOutcome,   \* what the last await improveText gave handleGenerateRevision
  lastAlert,         \* the message of the last alert()
  isEmailLoading,    \* App: useState(false)
  emailPreviewHtml,  \* App: useState(null)
  emailPreviewPlain, \* App: useState(null)
  emailCall,         \* handleGenerateEmailDraft suspended at its awaits
  emailOutcome,      \* what the last await explainChanges gave the handler
  svc,               \* the last call of a geminiService function and its result
  original,          \* calculateDiffs: the first argument
  revised,           \* calculateDiffs: the second argument
  diffChunks,        \* the chunks calculateDiffs returned
  chunkIds,          \* the id fields of diffChunks, in chunk order
  mathRandom,        \* the outcomes of the calls of Math.random(), in call order
  cleanText,         \* the text getCleanText returned for diffChunks
  diffPc,            \* "input", "diffed" or "cleaned"
  htmlChunks,        \* getRedlineHtml: the argument
  html,              \* the markup getRedlineHtml returned
  htmlPc             \* "input" or "done"

inputVars == <<originalText, revisedText, isRevisedDirty, deferredOriginal, deferredRevised>>

revisionVars == <<isAiLoading, revisionCall, revisionOutcome>>

emailVars == <<isEmailLoading, emailPreviewHtml, emailPreviewPlain, emailCall, emailOutcome>>

diffVars == <<original, revised, diffChunks, chunkIds, mathRandom, cleanText, diffPc>>

htmlVars == <<htmlChunks, html, htmlPc>>

vars == <<inputVars, revisionVars, lastAlert, emailVars, svc, diffVars, htmlVars>>

\* ------------------------------------------------------------ inputs

\* the largest number of words in an input text of the diff
MaxWords == 3

\* the largest number of chunks handed to getRedlineHtml
MaxChunks == 2

Words == {<<"a">>, <<"b">>}

Separators == {<<" ">>, <<"\n">>}

Edges == {<<>>, <<" ">>}

RECURSIVE WordRuns(_)
\* the texts of exactly k words, one separator between neighbours
WordRuns(k) ==
  IF k = 1 THEN Words
  ELSE {body \o sep \o word : body \in WordRuns(k - 1), sep \in Separators, word \in Words}

\* texts with a third word, for a word replaced between two kept words
ThirdWordTexts ==
  { <<"c">>, <<"a", " ", "c">>, <<"c", " ", "a">>,
    <<"a", " ", "c", " ", "a">>, <<"a", "\n", "c", " ", "a">>,
    <<" ", "a", " ", "c", " ", "b", " ">> }

\* empty and blank texts, up to MaxWords words with whitespace before them,
\* after them or at neither end, and the texts with a third word
DiffTexts ==
  {<<>>, <<" ">>, <<"\n">>}
    \cup {ends[1] \o body \o ends[2] :
            ends \in {e \in Edges \X Edges : e[1] = <<>> \/ e[2] = <<>>},
            body \in UNION {WordRuns(k) : k \in 1..MaxWords}}
    \cup ThirdWordTexts

\* the largest number of chunks of a diff whose ids are drawn
MaxIds == 3

\* the input texts of the diffs whose ids are drawn: at most MaxIds chunks
IdTexts == {<<>>, <<"a">>, <<"b">>, <<"a", " ", "b">>, <<"a", " ", "c">>}

\* outcomes of Math.random(), each the base-36 digits of its fraction: zero,
\* two outcomes of one digit, and two outcomes of ten digits that differ in
\* the tenth digit only
RandomOutcomes ==
  { <<>>, <<"a">>, <<"b">>,
    <<"a", "a", "a", "a", "a", "a", "a", "a", "a", "b">>,
    <<"a", "a", "a", "a", "a", "a", "a", "a", "a", "c">> }

\* outcomes of Math.random() that differ from call to call in their first
\* digits, one for every chunk a diff of the input texts can have
DistinctOutcomes ==
  LET d == <<"a", "b", "c", "g", "l", "m", "p", "r", "t">>
  IN  [i \in 1..(2 * MaxWords + 2) |-> <<d[((i - 1) \div Len(d)) + 1], d[((i - 1) % Len(d)) + 1]>>]

\* what the user types or pastes into a pane (e.target.value)
TypedTexts == {<<>>, <<" ">>, <<"a">>, <<"a", "\n", "b">>}

\* the texts a reply of the remote model may carry
ReplyTexts == {<<>>, <<" ">>, <<"b">>, <<" ", "b", "\n">>, <<"a", " ", "c">>}

RemoteReplies == {NoReply} \cup {[ok |-> TRUE, text |-> t] : t \in ReplyTexts}

\* the arguments of a direct call of a service function
ServiceTexts == {<<>>, <<" ">>, <<"\n", " ">>, <<"a">>, <<" ", "a">>, <<"a", " ", "b">>}

ChangeTypes == {"unchanged", "added", "removed"}

\* chunk values with and without the characters getRedlineHtml rewrites: the
\* markup characters, an entity, a break marker and a closing tag spelled out
\* in the text, and newlines
HtmlValues ==
  { <<>>, <<"a">>, <<"&">>, <<"<">>, <<">">>, <<"\n">>,
    <<"&", "l", "t", ";">>,
    <<"<", "b", "r", ">">>,
    <<"a", "\n", "\n", "b">>,
    <<"<", "/", "s", "p", "a", "n", ">">> }

RECURSIVE ChunkSeqsOfLen(_)
\* the chunk sequences of n chunks, originalIndex numbering them from 0
ChunkSeqsOfLen(n) ==
  IF n = 0 THEN {<<>>}
  ELSE {Append(cs, [value |-> v, type |-> t, originalIndex |-> n - 1]) :
          cs \in ChunkSeqsOfLen(n - 1), v \in HtmlValues, t \in ChangeTypes}

HtmlChunkSeqs == UNION {ChunkSeqsOfLen(n) : n \in 0..MaxChunks}

\* ------------------------------------------------------------ idle values

NoCall == [active |-> FALSE, text |-> <<>>]

NoOutcome == [settled |-> FALSE, text |-> <<>>, remote |-> FALSE, failed |-> FALSE,
              status |-> "none", value |-> <<>>]

NoEmailCall == [active |-> FALSE, originalText |-> <<>>, revisedText |-> <<>>, chunks |-> <<>>]

NoEmailOutcome == [settled |-> FALSE, remote |-> FALSE, failed |-> FALSE,
                   status |-> "none", explanation |-> <<>>]

\* null
NoPreview == [set |-> FALSE, explanation |-> <<>>, clean |-> <<>>]

NoService == [fn |-> "none", args |-> <<>>, remote |-> FALSE, failed |-> FALSE,
              status |-> "none", value |-> <<>>]

InputIdle ==
  /\ originalText = <<>>
  /\ revisedText = <<>>
  /\ isRevisedDirty = FALSE
  /\ deferredOriginal = <<>>
  /\ deferredRevised = <<>>

RevisionIdle ==
  /\ isAiLoading = FALSE
  /\ revisionCall = NoCall
  /\ revisionOutcome = NoOutcome

EmailIdle ==
  /\ isEmailLoading = FALSE
  /\ emailPreviewHtml = NoPreview
  /\ emailPreviewPlain = NoPreview
  /\ emailCall = NoEmailCall
  /\ emailOutcome = NoEmailOutcome

DiffIdle ==
  /\ original = <<>>
  /\ revised = <<>>
  /\ diffChunks = <<>>
  /\ chunkIds = <<>>
  /\ mathRandom = <<>>
  /\ cleanText = <<>>
  /\ diffPc = "input"

HtmlIdle ==
  /\ htmlChunks = <<>>
  /\ html = <<>>
  /\ htmlPc = "input"

\* ------------------------------------------------------------ the diff core

InitDiff ==
  /\ original \in DiffTexts
  /\ revised \in DiffTexts
  /\ mathRandom = DistinctOutcomes
  /\ diffChunks = <<>>
  /\ chunkIds = <<>>
  /\ cleanText = <<>>
  /\ diffPc = "input"
  /\ InputIdle /\ RevisionIdle /\ EmailIdle /\ HtmlIdle
  /\ lastAlert = "none"
  /\ svc = NoService

CalculateDiffs ==
  /\ diffPc = "input"
  /\ diffChunks' = calculateDiffs(original, revised)
  /\ chunkIds' = chunkIdsOf(Len(calculateDiffs(original, revised)), mathRandom)
  /\ diffPc' = "diffed"
  /\ UNCHANGED <<original, revised, mathRandom, cleanText>>
  /\ UNCHANGED <<inputVars, revisionVars, lastAlert, emailVars, svc, htmlVars>>

GetCleanText ==
  /\ diffPc = "diffed"
  /\ cleanText' = getCleanText(diffChunks)
  /\ diffPc' = "cleaned"
  /\ UNCHANGED <<original, revised, diffChunks, chunkIds, mathRandom>>
  /\ UNCHANGED <<inputVars, revisionVars, lastAlert, emailVars, svc, htmlVars>>

NextDiff == CalculateDiffs \/ GetCleanText

SpecDiff == InitDiff /\ [][NextDiff]_vars

\* ------------------------------------------------------------ the diff core, any outcomes of Math.random

InitIds ==
  /\ original \in IdTexts
  /\ revised \in IdTexts
  /\ mathRandom \in [1..MaxIds -> RandomOutcomes]
  /\ diffChunks = <<>>
  /\ chunkIds = <<>>
  /\ cleanText = <<>>
  /\ diffPc = "input"
  /\ InputIdle /\ RevisionIdle /\ EmailIdle /\ HtmlIdle
  /\ lastAlert = "none"
  /\ svc = NoService

SpecIds == InitIds /\ [][NextDiff]_vars

\* ------------------------------------------------------------ the styled markup

InitHtml ==
  /\ htmlChunks \in HtmlChunkSeqs
  /\ html = <<>>
  /\ htmlPc = "input"
  /\ InputIdle /\ RevisionIdle /\ EmailIdle /\ DiffIdle
  /\ lastAlert = "none"
  /\ svc = NoService

GetRedlineHtml ==
  /\ htmlPc = "input"
  /\ html' = getRedlineHtml(htmlChunks)
  /\ htmlPc' = "done"
  /\ UNCHANGED htmlChunks
  /\ UNCHANGED <<inputVars, revisionVars, lastAlert, emailVars, svc, diffVars>>

NextHtml == GetRedlineHtml

SpecHtml == InitHtml /\ [][NextHtml]_vars

\* ------------------------------------------------------------ the services, called directly

InitService ==
  /\ svc = NoService
  /\ InputIdle /\ RevisionIdle /\ EmailIdle /\ DiffIdle /\ HtmlIdle
  /\ lastAlert = "none"

ImproveText ==
  /\ \E text \in ServiceTexts, reply \in RemoteReplies :
       LET r == improveText(text, reply)
       IN  svc' = [fn |-> "improveText", args |-> <<text>>, remote |-> r.remote,
                   failed |-> r.remote /\ ~reply.ok, status |-> r.status,
                   value |-> r.value]
  /\ UNCHANGED <<inputVars, revisionVars, lastAlert, emailVars, diffVars, htmlVars>>

ExplainChanges ==
  /\ \E orig \in ServiceTexts, rev \in ServiceTexts, reply \in RemoteReplies :
       LET r == explainChanges(orig, rev, reply)
       IN  svc' = [fn |-> "explainChanges", args |-> <<orig, rev>>, remote |-> r.remote,
                   failed |-> r.remote /\ ~reply.ok, status |-> r.status,
                   value |-> r.value]
  /\ UNCHANGED <<inputVars, revisionVars, lastAlert, emailVars, diffVars, htmlVars>>

NextService == ImproveText \/ ExplainChanges

SpecService == InitService /\ [][NextService]_vars

\* ------------------------------------------------------------ App: the panes and the AI revision

\* App.chunks: useMemo over the deferred texts, [] while both are empty
chunks ==
  IF deferredOriginal = <<>> /\ deferredRevised = <<>> THEN <<>>
  ELSE calculateDiffs(deferredOriginal, deferredRevised)

Init ==
  /\ InputIdle /\ RevisionIdle /\ EmailIdle /\ DiffIdle /\ HtmlIdle
  /\ lastAlert = "none"
  /\ svc = NoService

\* onChange of the original pane
handleOriginalChange ==
  /\ \E newVal \in TypedTexts :
       /\ newVal # originalText
       /\ originalText' = newVal
       /\ revisedText' = IF ~isRevisedDirty /\ revisedText = <<>> THEN newVal ELSE revisedText
  /\ UNCHANGED <<isRevisedDirty, deferredOriginal, deferredRevised>>
  /\ UNCHANGED <<revisionVars, lastAlert, emailVars, svc, diffVars, htmlVars>>

\* onChange of the revised pane
handleRevisedChange ==
  /\ \E newVal \in TypedTexts :
       /\ newVal # revisedText
       /\ revisedText' = newVal
  /\ isRevisedDirty' = TRUE
  /\ UNCHANGED <<originalText, deferredOriginal, deferredRevised>>
  /\ UNCHANGED <<revisionVars, lastAlert, emailVars, svc, diffVars, htmlVars>>

\* Clear of the original pane, disabled while it is empty
clearOriginal ==
  /\ originalText # <<>>
  /\ originalText' = <<>>
  /\ UNCHANGED <<revisedText, isRevisedDirty, deferredOriginal, deferredRevised>>
  /\ UNCHANGED <<revisionVars, lastAlert, emailVars, svc, diffVars, htmlVars>>

\* Clear of the revised pane, disabled while it is empty
clearRevised ==
  /\ revisedText # <<>>
  /\ revisedText' = <<>>
  /\ isRevisedDirty' = TRUE
  /\ UNCHANGED <<originalText, deferredOriginal, deferredRevised>>
  /\ UNCHANGED <<revisionVars, lastAlert, emailVars, svc, diffVars, htmlVars>>

\* Reset All
handleReset ==
  /\ originalText' = <<>>
  /\ revisedText' = <<>>
  /\ isRevisedDirty' = FALSE
  /\ UNCHANGED <<deferredOriginal, deferredRevised>>
  /\ UNCHANGED <<revisionVars, lastAlert, emailVars, svc, diffVars, htmlVars>>

\* the deferred render: the deferred texts catch up with the panes
deferredRender ==
  /\ <<deferredOriginal, deferredRevised>> # <<originalText, revisedText>>
  /\ deferredOriginal' = originalText
  /\ deferredRevised' = revisedText
  /\ UNCHANGED <<originalText, revisedText, isRevisedDirty>>
  /\ UNCHANGED <<revisionVars, lastAlert, emailVars, svc, diffVars, htmlVars>>

\* AI Polish, disabled while the original is empty or a call is in flight:
\* the handler up to await improveText(originalText)
handleGenerateRevision ==
  /\ originalText # <<>>
  /\ ~isAiLoading
  /\ isAiLoading' = TRUE
  /\ revisionCall' = [active |-> TRUE, text |-> originalText]
  /\ UNCHANGED <<revisionOutcome, inputVars, lastAlert, emailVars, svc, diffVars, htmlVars>>

\* improveText settles and the handler resumes: try, catch and finally
handleGenerateRevisionResume ==
  /\ revisionCall.active
  /\ \E reply \in RemoteReplies :
       LET r == improveText(revisionCall.text, reply)
       IN  /\ revisionOutcome' = [settled |-> TRUE, text |-> revisionCall.text,
                                  remote |-> r.remote, failed |-> r.remote /\ ~reply.ok,
                                  status |-> r.status, value |-> r.value]
           /\ IF r.status = "returned"
              THEN /\ revisedText' = r.value
                   /\ isRevisedDirty' = TRUE
                   /\ UNCHANGED lastAlert
              ELSE /\ lastAlert' = "Failed to generate revision. Please check your API key or connection."
                   /\ UNCHANGED <<revisedText, isRevisedDirty>>
  /\ isAiLoading' = FALSE
  /\ revisionCall' = NoCall
  /\ UNCHANGED <<originalText, deferredOriginal, deferredRevised>>
  /\ UNCHANGED <<emailVars, svc, diffVars, htmlVars>>

Next ==
  \/ handleOriginalChange
  \/ handleRevisedChange
  \/ clearOriginal
  \/ clearRevised
  \/ handleReset
  \/ deferredRender
  \/ handleGenerateRevision
  \/ handleGenerateRevisionResume

Spec == Init /\ [][Next]_vars

\* ------------------------------------------------------------ App: the email draft

InitEmail ==
  /\ originalText \in TypedTexts
  /\ revisedText \in TypedTexts
  /\ isRevisedDirty = TRUE
  /\ deferredOriginal = originalText
  /\ deferredRevised = revisedText
  /\ RevisionIdle /\ EmailIdle /\ DiffIdle /\ HtmlIdle
  /\ lastAlert = "none"
  /\ svc = NoService

\* Draft Email: the handler up to await explainChanges(originalText,
\* revisedText); the closure keeps the texts and the chunks of this render
handleGenerateEmailDraft ==
  /\ originalText # <<>>
  /\ revisedText # <<>>
  /\ ~isEmailLoading
  /\ isEmailLoading' = TRUE
  /\ emailCall' = [active |-> TRUE, originalText |-> originalText,
                   revisedText |-> revisedText, chunks |-> chunks]
  /\ UNCHANGED <<emailPreviewHtml, emailPreviewPlain, emailOutcome>>
  /\ UNCHANGED <<inputVars, revisionVars, lastAlert, svc, diffVars, htmlVars>>

\* explainChanges and toPng settle and the handler resumes: the previews are
\* set unless an await rejected
handleGenerateEmailDraftResume ==
  /\ emailCall.active
  /\ \E reply \in RemoteReplies, pngOk \in BOOLEAN :
       LET r == explainChanges(emailCall.originalText, emailCall.revisedText, reply)
           clean == getCleanText(emailCall.chunks)
       IN  /\ emailOutcome' = [settled |-> TRUE, remote |-> r.remote,
                               failed |-> r.remote /\ ~reply.ok,
                               status |-> r.status, explanation |-> r.value]
           /\ IF r.status = "returned" /\ pngOk
              THEN /\ emailPreviewHtml' =
                        [set |-> TRUE, explanation |-> r.value,
                         clean |-> ReplaceAll(clean, "\n", <<"<", "b", "r", ">">>)]
                   /\ emailPreviewPlain' =
                        [set |-> TRUE, explanation |-> r.value, clean |-> clean]
                   /\ UNCHANGED lastAlert
              ELSE /\ lastAlert' = "Failed to generate email draft."
                   /\ UNCHANGED <<emailPreviewHtml, emailPreviewPlain>>
  /\ isEmailLoading' = FALSE
  /\ emailCall' = NoEmailCall
  /\ UNCHANGED <<inputVars, revisionVars, svc, diffVars, htmlVars>>

\* Copy to Clipboard of the preview: both previews are dropped unless the
\* clipboard write rejects
handleCopyEmailDraft ==
  /\ emailPreviewHtml.set
  /\ emailPreviewPlain.set
  /\ \E copied \in BOOLEAN :
       IF copied
       THEN /\ lastAlert' = "Email draft copied to clipboard!"
            /\ emailPreviewHtml' = NoPreview
            /\ emailPreviewPlain' = NoPreview
       ELSE /\ lastAlert' = "Failed to copy email draft."
            /\ UNCHANGED <<emailPreviewHtml, emailPreviewPlain>>
  /\ UNCHANGED <<isEmailLoading, emailCall, emailOutcome>>
  /\ UNCHANGED <<inputVars, revisionVars, svc, diffVars, htmlVars>>

\* X and Cancel of the preview
closeEmailPreview ==
  /\ emailPreviewHtml.set
  /\ emailPreviewHtml' = NoPreview
  /\ UNCHANGED <<isEmailLoading, emailPreviewPlain, emailCall, emailOutcome>>
  /\ UNCHANGED <<inputVars, revisionVars, lastAlert, svc, diffVars, htmlVars>>

NextEmail ==
  \/ handleGenerateEmailDraft
  \/ handleGenerateEmailDraftResume
  \/ handleCopyEmailDraft
  \/ closeEmailPreview

SpecEmail == InitEmail /\ [][NextEmail]_vars

\* ------------------------------------------------------------ properties: helpers

\* the values of the chunks of the given types, concatenated in chunk order
ConcatOfTypes(cs, types) ==
  Flatten([i \in 1..Len(cs) |-> IF cs[i].type \in types THEN cs[i].value ELSE <<>>])

HasType(cs, type) == \E i \in 1..Len(cs) : cs[i].type = type

\* the literal lit stands in s at position i
At(s, i, lit) ==
  /\ i >= 1
  /\ i + Len(lit) - 1 <= Len(s)
  /\ \A k \in 1..Len(lit) : s[i + k - 1] = lit[k]

\* the first position from i on where lit stands in s, 0 when there is none
FirstAt(s, i, lit) ==
  LET at == {j \in i..Len(s) : At(s, j, lit)}
  IN  IF at = {} THEN 0 ELSE CHOOSE j \in at : \A k \in at : j <= k

Occurs(s, lit) == FirstAt(s, 1, lit) # 0

CountChars(s, cset) == Cardinality({i \in 1..Len(s) : s[i] \in cset})

RECURSIVE SumOver(_, _)
SumOver(f, n) == IF n = 0 THEN 0 ELSE f[n] + SumOver(f, n - 1)

RECURSIVE ReadSpansFrom(_, _, _)
\* a reader of the markup: from position i on, h must be a run of
\* <span ATTRS>TEXT</span> elements, TEXT ending at the first </span>
ReadSpansFrom(h, i, acc) ==
  IF i > Len(h) THEN [ok |-> TRUE, spans |-> acc]
  ELSE IF ~At(h, i, <<"<", "s", "p", "a", "n">>) THEN [ok |-> FALSE, spans |-> acc]
  ELSE LET j == FirstAt(h, i, <<">">>)
           k == IF j = 0 THEN 0 ELSE FirstAt(h, j + 1, SpanClose)
       IN  IF k = 0 THEN [ok |-> FALSE, spans |-> acc]
           ELSE ReadSpansFrom(h, k + Len(SpanClose),
                              Append(acc, [attrs |-> Slice(h, i + 5, j - 1),
                                           text |-> Slice(h, j + 1, k - 1)]))

ReadSpans(h) == ReadSpansFrom(h, 1, <<>>)

RECURSIVE ReadTextFrom(_, _, _)
\* a reader of the text of one span: <br> is a line break, &amp; &lt; &gt;
\* are the characters they name, and any other <, >, & or a raw newline is
\* not text
ReadTextFrom(t, i, acc) ==
  IF i > Len(t) THEN [ok |-> TRUE, value |-> acc]
  ELSE IF At(t, i, <<"<", "b", "r", ">">>) THEN ReadTextFrom(t, i + 4, Append(acc, "\n"))
  ELSE IF At(t, i, <<"&", "a", "m", "p", ";">>) THEN ReadTextFrom(t, i + 5, Append(acc, "&"))
  ELSE IF At(t, i, <<"&", "l", "t", ";">>) THEN ReadTextFrom(t, i + 4, Append(acc, "<"))
  ELSE IF At(t, i, <<"&", "g", "t", ";">>) THEN ReadTextFrom(t, i + 4, Append(acc, ">"))
  ELSE IF t[i] \in {"<", ">", "&", "\n"} THEN [ok |-> FALSE, value |-> acc]
  ELSE ReadTextFrom(t, i + 1, Append(acc, t[i]))

ReadText(t) == ReadTextFrom(t, 1, <<>>)

\* the treatment a reader sees on a span: none, underline or line-through
TreatmentOf(attrs) ==
  IF attrs = <<>> THEN "unchanged"
  ELSE IF Occurs(attrs, <<"l", "i", "n", "e", "-", "t", "h", "r", "o", "u", "g", "h">>)
  THEN "removed"
  ELSE IF Occurs(attrs, <<"u", "n", "d", "e", "r", "l", "i", "n", "e">>) THEN "added"
  ELSE "unknown"

\* no token of one text equals a token of the other
NoCommonToken(a, b) ==
  LET ta == tokenize(a)
      tb == tokenize(b)
  IN  {Trim(ta[i]) : i \in 1..Len(ta)} \cap {Trim(tb[j]) : j \in 1..Len(tb)} = {}

RevisionFailedAlert == "Failed to generate revision. Please check your API key or connection."

\* ------------------------------------------------------------ properties

\* C1: for all texts A and B, getCleanText(calculateDiffs(A, B)) is B, and B
\* is the concatenation, in order, of the values of the unchanged and added
\* chunks.
C1_CleanTextIsRevised ==
  diffPc = "cleaned" =>
    /\ cleanText = revised
    /\ ConcatOfTypes(diffChunks, {"unchanged", "added"}) = revised

\* C1 witness: a diff with kept, removed and added chunks whose clean text has
\* been taken
C1_Witness ==
  /\ diffPc = "cleaned"
  /\ HasType(diffChunks, "unchanged")
  /\ HasType(diffChunks, "removed")
  /\ HasType(diffChunks, "added")
  /\ cleanText = revised
  /\ cleanText # original

\* C2: for all texts A and B, also when they differ in whitespace only, the
\* values of the unchanged and removed chunks of calculateDiffs(A, B),
\* concatenated in order, are A.
C2_OriginalReconstructed ==
  diffPc # "input" => ConcatOfTypes(diffChunks, {"unchanged", "removed"}) = original

C4_ExplanationFallback ==
  /\ FailureExplanation # <<>>
  /\ emailOutcome.settled => emailOutcome.status = "returned"
  /\ emailOutcome.failed => emailOutcome.explanation = FailureExplanation
  /\ (emailOutcome.settled /\ emailOutcome.remote) => emailOutcome.explanation # <<>>
  /\ emailPreviewPlain.set => emailPreviewPlain.explanation # <<>>
  /\ emailPreviewHtml.set => emailPreviewHtml.explanation # <<>>

\* C4 witness: a draft whose explanation call failed is shown with the fixed
\* explanation
C4_Witness ==
  /\ emailOutcome.failed
  /\ emailPreviewHtml.set
  /\ emailPreviewPlain.set
  /\ emailPreviewPlain.explanation = FailureExplanation

\* C5: in the markup of getRedlineHtml the text of every span reads back as
\* the chunk's value: every <, > and & of the value is an entity, & being
\* escaped first, every newline is one <br>, no raw newline is left, and the
\* only other markup characters are those of the span tags.
C5_EscapingSafety ==
  htmlPc = "done" =>
    LET r == ReadSpans(html)
        n == Len(htmlChunks)
    IN  /\ r.ok
        /\ Len(r.spans) = n
        /\ CountChars(html, {"\n"}) = 0
        /\ \A i \in 1..n :
             LET v == htmlChunks[i].value
                 t == r.spans[i].text
             IN  /\ ReadText(t).ok
                 /\ ReadText(t).value = v
                 /\ CountChars(t, {"&"}) = CountChars(v, {"&", "<", ">"})
                 /\ CountChars(t, {"<"}) = CountChars(v, {"\n"})
                 /\ CountChars(t, {">"}) = CountChars(v, {"\n"})
        /\ CountChars(html, {"<"})
             = 2 * n + SumOver([i \in 1..n |-> CountChars(htmlChunks[i].value, {"\n"})], n)

\* C5 witness: markup of a chunk that spells an entity and of a chunk with
\* two newlines
C5_Witness ==
  /\ htmlPc = "done"
  /\ Len(htmlChunks) = 2
  /\ htmlChunks[1].value = <<"&", "l", "t", ";">>
  /\ htmlChunks[2].value = <<"a", "\n", "\n", "b">>
  /\ Occurs(html, <<"&", "a", "m", "p", ";", "l", "t", ";">>)
  /\ Occurs(html, <<"a", "<", "b", "r", ">", "<", "b", "r", ">", "b">>)

\* C6: improveText called with the empty text returns the empty text without
\* the remote call; the remote call is made for non-empty texts only.
C6_EmptyInputNoRemoteCall ==
  svc.fn = "improveText" =>
    /\ svc.args[1] = <<>> => (~svc.remote /\ svc.status = "returned" /\ svc.value = <<>>)
    /\ svc.remote => svc.args[1] # <<>>

\* C6 witness: improveText has been called with the empty text
C6_Witness ==
  /\ svc.fn = "improveText"
  /\ svc.args = <<(<<>>)>>
  /\ ~svc.remote
  /\ svc.value = <<>>

\* C7: calculateDiffs of two empty texts is the empty sequence (and its clean
\* text is empty); of an empty original and a non-empty revised B it is the
\* one chunk added B; of a non-empty original A and an empty revised it is the
\* one chunk removed A; and no chunk has an empty value.
C7_EmptyInputs ==
  diffPc # "input" =>
    /\ (original = <<>> /\ revised = <<>>) =>
         (diffChunks = <<>> /\ (diffPc = "cleaned" => cleanText = <<>>))
    /\ (original = <<>> /\ revised # <<>>) =>
         /\ Len(diffChunks) = 1
         /\ diffChunks[1].type = "added"
         /\ diffChunks[1].value = revised
    /\ (original # <<>> /\ revised = <<>>) =>
         /\ Len(diffChunks) = 1
         /\ diffChunks[1].type = "removed"
         /\ diffChunks[1].value = original
    /\ \A i \in 1..Len(diffChunks) : diffChunks[i].value # <<>>

\* C7 witness: the diff of the empty text and a text of two words
C7_Witness ==
  /\ diffPc = "diffed"
  /\ original = <<>>
  /\ Len(tokenize(revised)) = 2
  /\ Len(diffChunks) = 1
  /\ diffChunks[1].type = "added"

\* C8: calculateDiffs(A, A) has unchanged chunks only, their values
\* concatenate to A, and for a non-empty A it is the one chunk unchanged A.
C8_IdentityLaw ==
  (diffPc # "input" /\ original = revised) =>
    /\ \A i \in 1..Len(diffChunks) : diffChunks[i].type = "unchanged"
    /\ ConcatOfTypes(diffChunks, ChangeTypes) = original
    /\ original # <<>> =>
         /\ Len(diffChunks) = 1
         /\ diffChunks[1].type = "unchanged"
         /\ diffChunks[1].value = original

\* C8 witness: a text of three words with whitespace before them, diffed
\* against itself
C8_Witness ==
  /\ diffPc = "diffed"
  /\ original = revised
  /\ Len(tokenize(original)) = 3
  /\ original[1] = " "
  /\ original[3] = "\n"
  /\ Len(diffChunks) = 1

C10_OneSpanPerChunk ==
  htmlPc = "done" =>
    LET r == ReadSpans(html)
    IN  /\ r.ok
        /\ Len(r.spans) = Len(htmlChunks)
        /\ \A i \in 1..Len(htmlChunks) :
             /\ TreatmentOf(r.spans[i].attrs) = htmlChunks[i].type
             /\ ReadText(r.spans[i].text).value = htmlChunks[i].value
        /\ htmlChunks = <<>> => html = <<>>

\* C10 witness: markup of a removed chunk followed by an added chunk of
\* another value
C10_Witness ==
  /\ htmlPc = "done"
  /\ Len(htmlChunks) = 2
  /\ htmlChunks[1].type = "removed"
  /\ htmlChunks[2].type = "added"
  /\ htmlChunks[1].value = <<"a">>
  /\ htmlChunks[2].value = <<"<">>
  /\ Len(ReadSpans(html).spans) = 2

\* C11: within one result of calculateDiffs the chunk ids are pairwise
\* distinct, whatever the input texts and whatever the outcomes of the id
\* generator.
C11_IdsDistinct ==
  diffPc # "input" =>
    /\ Len(chunkIds) = Len(diffChunks)
    /\ \A i \in 1..Len(chunkIds) : \A j \in 1..Len(chunkIds) :
         i # j => chunkIds[i] # chunkIds[j]

\* C12: while the revised text has not been edited (isRevisedDirty is false)
\* every handleOriginalChange leaves the revised text equal to the new
\* original text; once it has been edited (handleRevisedChange, an AI
\* revision, the Clear of the revised pane) handleOriginalChange never
\* changes the revised text and the state stays dirty, until handleReset
\* returns it to the pristine state.
C12_PristineDirtyMachine ==
  [][/\ (handleOriginalChange /\ ~isRevisedDirty) => revisedText' = originalText'
     /\ (handleOriginalChange /\ isRevisedDirty) => revisedText' = revisedText
     /\ (handleRevisedChange \/ clearRevised) => isRevisedDirty'
     /\ (handleGenerateRevisionResume /\ revisionOutcome'.status = "returned") => isRevisedDirty'
     /\ (isRevisedDirty /\ ~handleReset) => isRevisedDirty'
     /\ handleReset => (~isRevisedDirty' /\ originalText' = <<>> /\ revisedText' = <<>>)]_vars

====
